---- MODULE Spec2Model ----
(***************************************************************************)
(* Legacy relayer scheduler (relayerMainLoop), its channel workers         *)
(* (relayUnrelayedPacketsAndAcks) and the channel filter                   *)
(* (applyChannelFilterRule / filterOpenChannels).                          *)
(***************************************************************************)
EXTENDS Integers, Sequences, FiniteSets, TLC

\* ------------------------------------------------------------------ bounds
MaxChannels == 2      \* channels that exist on the src connection
MaxFilterLen == 3     \* longest channel sequence / list drawn for the pure filter
RtyAttNum == 2        \* attempts of the shared retry policy
MaxSeq == 2           \* largest packet / acknowledgement sequence number
MaxCallers == 3       \* goroutines that call NewSettlementProvider

ChannelIds == 1..MaxChannels

\* ------------------------------------------------------- program constants
OPEN == "OPEN"
CLOSED == "CLOSED"
TRYOPEN == "TRYOPEN"
ChannelStates == {TRYOPEN, OPEN, CLOSED}

ProcessorEvents == "events"
ProcessorLegacy == "legacy"

allowList == "allowlist"
denyList == "denylist"
Rules == {allowList, denyList, ""}

Canceled == "context canceled"
QueryErr == "query failed"
NoOpenChannelsErr == "there are no open channels to relay on"

WrapQueryAllChannels(e) == "error querying all channels on chain: " \o e

\* ------------------------------------------------------------------ helpers
RECURSIVE SeqsUpTo(_, _)
SeqsUpTo(S, n) ==
    IF n = 0 THEN {<<>>}
    ELSE LET shorter == SeqsUpTo(S, n - 1)
         IN shorter \cup {Append(s, x) : s \in {t \in shorter : Len(t) = n - 1}, x \in S}

Range(s) == {s[i] : i \in 1..Len(s)}

RemoveAt(s, i) == [k \in 1..(Len(s) - 1) |-> IF k < i THEN s[k] ELSE s[k + 1]]

Count(s, x) == Cardinality({i \in 1..Len(s) : s[i] = x})

\* s is a subsequence of t (order preserved)
RECURSIVE IsSubseq(_, _)
IsSubseq(s, t) ==
    IF s = <<>> THEN TRUE
    ELSE IF t = <<>> THEN FALSE
    ELSE IF Head(s) = Head(t) THEN IsSubseq(Tail(s), Tail(t))
    ELSE IsSubseq(s, Tail(t))

\* ----------------------------------------------------------- channel filter
\* ChannelFilter.InChannelList: channelID occurs in filter.ChannelList
InChannelList(filter, channelId) == \E i \in 1..Len(filter.ChannelList) : filter.ChannelList[i] = channelId

RECURSIVE KeepAllowed(_, _)
KeepAllowed(filter, channels) ==
    IF channels = <<>> THEN <<>>
    ELSE IF InChannelList(filter, Head(channels).ChannelId)
         THEN <<Head(channels)>> \o KeepAllowed(filter, Tail(channels))
         ELSE KeepAllowed(filter, Tail(channels))

RECURSIVE KeepNotDenied(_, _)
KeepNotDenied(filter, channels) ==
    IF channels = <<>> THEN <<>>
    ELSE IF InChannelList(filter, Head(channels).ChannelId)
         THEN KeepNotDenied(filter, Tail(channels))
         ELSE <<Head(channels)>> \o KeepNotDenied(filter, Tail(channels))

\* a slip that keeps the denied channels instead of dropping them
applyChannelFilterRuleDenyKeeps(filter, channels) ==
    IF filter.Rule = allowList THEN KeepAllowed(filter, channels)
    ELSE IF filter.Rule = denyList THEN KeepAllowed(filter, channels)
    ELSE channels

\* a slip that prepends instead of appending in the allow loop
RECURSIVE KeepAllowedReversed(_, _)
KeepAllowedReversed(filter, channels) ==
    IF channels = <<>> THEN <<>>
    ELSE IF InChannelList(filter, Head(channels).ChannelId)
         THEN KeepAllowedReversed(filter, Tail(channels)) \o <<Head(channels)>>
         ELSE KeepAllowedReversed(filter, Tail(channels))

applyChannelFilterRuleReversed(filter, channels) ==
    IF filter.Rule = allowList THEN KeepAllowedReversed(filter, channels)
    ELSE IF filter.Rule = denyList THEN KeepNotDenied(filter, channels)
    ELSE channels

applyChannelFilterRule(filter, channels) ==
    IF filter.Rule = allowList THEN KeepAllowed(filter, channels)
    ELSE IF filter.Rule = denyList THEN KeepNotDenied(filter, channels)
    ELSE channels

\* a slip that forgets the state test
filterOpenChannelsAnyState(channels) ==
    [id \in {channels[i].ChannelId : i \in 1..Len(channels)} |->
        LET last == CHOOSE i \in 1..Len(channels) :
                        /\ channels[i].ChannelId = id
                        /\ \A j \in (i + 1)..Len(channels) : channels[j].ChannelId # id
        IN [channel |-> channels[last], active |-> FALSE]]

\* map ChannelId -> ActiveChannel of the OPEN channels; a later entry with the
\* same ChannelId overwrites an earlier one
filterOpenChannels(channels) ==
    LET openIdx == {i \in 1..Len(channels) : channels[i].State = OPEN}
    IN [id \in {channels[i].ChannelId : i \in openIdx} |->
           LET last == CHOOSE i \in openIdx :
                           /\ channels[i].ChannelId = id
                           /\ \A j \in openIdx : j > i => channels[j].ChannelId # id
           IN [channel |-> channels[last], active |-> FALSE]]


\* ------------------------------------------------------------------- state
VARIABLES
    filter,        \* ChannelFilter handed to StartRelayer
    ctxDone,       \* the root context is cancelled
    pc,            \* position of relayerMainLoop
    chanCap,       \* capacity of the completion queue `channels`
    openChannels,  \* srcOpenChannels: ChannelId -> ActiveChannel
    channels,      \* completion queue contents
    wg,            \* sync.WaitGroup counter
    errCh,         \* failure channel contents (capacity 1)
    cur,           \* `channel` local of the main loop (0 = nil)
    attempt,       \* attempt number inside retry.Do
    workers,       \* ChannelId -> sequence of live worker tasks
    retired,       \* history: channels deleted from openChannels
    firstIter,     \* history: the first spawn loop has not finished yet
    spawnedFirst,  \* history: channels given a worker in the first iteration
    discovered,    \* history: the channel list returned by discovery
    ft,            \* the pure filter under test
    wk,            \* one channel worker followed call by call
    processorType, \* processorType handed to StartRelayer
    closed,        \* the failure channel has been closed
    sc             \* the settlement client: lock, singleton, callers of NewSettlementProvider

vars == <<filter, ctxDone, pc, chanCap, openChannels, channels, wg,
          errCh, cur, attempt, workers, retired, firstIter, spawnedFirst,
          discovered, ft,
                   wk, processorType, closed, sc>>

schedVars == <<pc, chanCap, openChannels, channels, wg, errCh, cur, attempt,
               retired, firstIter, spawnedFirst, discovered>>

Filters(n) == [Rule : Rules, ChannelList : SeqsUpTo(ChannelIds, n)]

\* filters drawn for a scheduler run: every rule with an empty or a one-channel list
SchedulerFilters == [Rule : Rules, ChannelList : {<<>>} \cup {<<c>> : c \in ChannelIds}]

IdentifiedChannels == [ChannelId : ChannelIds, State : ChannelStates]

NoFilterRun == [filter |-> [Rule |-> "", ChannelList |-> <<>>], channels |-> <<>>,
                out |-> <<>>, applied |-> FALSE]

\* value of wk while no worker is followed
NoWorkerRun == [pc |-> "none"]

\* value of sc while the settlement client is not followed
NoSettlementRun == [lock |-> 0]

\* worker task just started by `go relayUnrelayedPacketsAndAcks(...)`
NewWorker == [pc |-> "pkHeights", srcAck |-> "idle", dstAck |-> "idle"]

SchedulerInit ==
    /\ ctxDone = FALSE
    /\ pc = "queryHeight"
    /\ chanCap = 0
    /\ openChannels = <<>>
    /\ channels = <<>>
    /\ wg = 0
    /\ errCh = <<>>
    /\ cur = 0
    /\ attempt = 1
    /\ workers = [c \in ChannelIds |-> <<>>]
    /\ retired = {}
    /\ firstIter = TRUE
    /\ spawnedFirst = {}
    /\ discovered = <<>>

\* StartRelayer with processorType = ProcessorLegacy
LegacyInit ==
    /\ processorType = ProcessorLegacy
    /\ closed = FALSE

Init ==
    /\ filter \in SchedulerFilters
    /\ SchedulerInit
    /\ LegacyInit
    /\ ft = NoFilterRun
    /\ wk = NoWorkerRun
    /\ sc = NoSettlementRun

\* ------------------------------------------------------------- environment
Cancel ==
    /\ ~ctxDone
    /\ ctxDone' = TRUE
    /\ UNCHANGED <<filter, schedVars, workers, ft,
                   wk, processorType, closed, sc>>

\* a provider call made with ctx can succeed only while ctx is not cancelled
\* (a call that completes as the cancellation arrives is one that completed
\* just before it)
CallCanSucceed == ~ctxDone

\* errors a provider call made with ctx can come back with
ProviderErrs == {QueryErr} \cup (IF ctxDone THEN {Canceled} ELSE {})

\* ------------------------------------------------------ relayerMainLoop
RECURSIVE Ascending(_)
Ascending(S) ==
    IF S = {} THEN <<>>
    ELSE LET m == CHOOSE x \in S : \A y \in S : x <= y
         IN <<m>> \o Ascending(S \ {m})

\* responses of QueryConnectionChannels: any of the connection's channels, each
\* in any state, every ChannelId at most once
ConnectionChannels ==
    {[i \in 1..Len(Ascending(S)) |-> [ChannelId |-> Ascending(S)[i], State |-> st[Ascending(S)[i]]]] :
        <<S, st>> \in {<<T, f>> \in (SUBSET ChannelIds) \X [ChannelIds -> ChannelStates] :
                           \A c \in ChannelIds \ T : f[c] = OPEN}}

\* wraps every error, the cancellation included
ReportDiscoveryErrorAlwaysWraps(e) == WrapQueryAllChannels(e)

ReportDiscoveryError(e) == IF e = Canceled THEN e ELSE WrapQueryAllChannels(e)

\* a queue sized by a fixed constant instead of the channel count
MakeCompletionQueueCapOne(srcChannels) == 1

MakeCompletionQueueCap(srcChannels) == Len(srcChannels)

NoOpenChannelsNever(open) == FALSE

NoOpenChannels(open) == DOMAIN open = {}

\* forgets `channel.active = true`
ActivateChannelForgets(open, c) == open

ActivateChannel(open, c) == [open EXCEPT ![c].active = TRUE]

\* clears the flag of every entry instead of the dequeued one
MarkInactiveAll(open, c) == [k \in DOMAIN open |-> [open[k] EXCEPT !.active = FALSE]]

MarkInactive(open, c) ==
    IF c \in DOMAIN open THEN [open EXCEPT ![c].active = FALSE] ELSE open

\* deletes only CLOSED channels
RetireIfClosed(open, c, st) ==
    IF st = CLOSED THEN [k \in (DOMAIN open) \ {c} |-> open[k]] ELSE open

\* puts every discovered channel back when the re-query says OPEN
RetireIfNotOpenRediscovers(open, c, st) ==
    IF st # OPEN THEN [k \in (DOMAIN open) \ {c} |-> open[k]]
    ELSE [k \in ChannelIds |-> IF k \in DOMAIN open THEN open[k]
                                ELSE [channel |-> [ChannelId |-> k, State |-> OPEN], active |-> FALSE]]

RetireIfNotOpen(open, c, st) ==
    IF st # OPEN THEN [k \in (DOMAIN open) \ {c} |-> open[k]] ELSE open

Terminate(e) ==
    /\ Len(errCh) < 1
    /\ errCh' = Append(errCh, e)
    /\ pc' = "done"

\* src.ChainProvider.QueryLatestHeight(ctx), not retried
QueryHeight ==
    /\ pc = "queryHeight"
    /\ \/ /\ CallCanSucceed
          /\ pc' = "queryChannels"
          /\ UNCHANGED errCh
       \/ \E e \in ProviderErrs : Terminate(ReportDiscoveryError(e))
    /\ UNCHANGED <<filter, ctxDone, chanCap, openChannels, channels, wg,
                   cur, attempt, workers, retired, firstIter, spawnedFirst,
                   discovered, ft,
                   wk, processorType, closed, sc>>

\* one attempt of retry.Do around QueryConnectionChannels, then filtering
QueryChannels ==
    /\ pc = "queryChannels"
    /\ \/ \E srcChannels \in ConnectionChannels :
          LET filtered == applyChannelFilterRule(filter, srcChannels)
          IN /\ CallCanSucceed
             /\ discovered' = srcChannels
             /\ chanCap' = MakeCompletionQueueCap(srcChannels)
             /\ openChannels' = filterOpenChannels(filtered)
             /\ attempt' = 1
             /\ pc' = "loopTop"
             /\ UNCHANGED errCh
       \/ \E e \in ProviderErrs :
             IF attempt = RtyAttNum
             THEN /\ Terminate(ReportDiscoveryError(e))
                  /\ attempt' = 1
                  /\ UNCHANGED <<discovered, chanCap, openChannels>>
             ELSE IF ctxDone
             THEN /\ Terminate(ReportDiscoveryError(Canceled))
                  /\ attempt' = 1
                  /\ UNCHANGED <<discovered, chanCap, openChannels>>
             ELSE /\ attempt' = attempt + 1
                  /\ UNCHANGED <<discovered, chanCap, openChannels, errCh, pc>>
    /\ UNCHANGED <<filter, ctxDone, channels, wg, cur, workers,
                   retired, firstIter, spawnedFirst, ft,
                   wk, processorType, closed, sc>>

LoopTop ==
    /\ pc = "loopTop"
    /\ IF NoOpenChannels(openChannels)
       THEN Terminate(NoOpenChannelsErr)
       ELSE /\ pc' = "spawn"
            /\ UNCHANGED errCh
    /\ UNCHANGED <<filter, ctxDone, chanCap, openChannels, channels, wg, cur,
                   attempt, workers, retired, firstIter, spawnedFirst, discovered, ft,
                   wk, processorType, closed, sc>>

\* one turn of the range loop that finds an entry with active = false
Spawn(c) ==
    /\ pc = "spawn"
    /\ c \in DOMAIN openChannels
    /\ ~openChannels[c].active
    /\ openChannels' = ActivateChannel(openChannels, c)
    /\ wg' = wg + 1
    /\ workers' = [workers EXCEPT ![c] = Append(@, NewWorker)]
    /\ spawnedFirst' = IF firstIter THEN spawnedFirst \cup {c} ELSE spawnedFirst
    /\ UNCHANGED <<filter, ctxDone, pc, chanCap, channels, errCh, cur,
                   attempt, retired, firstIter, discovered, ft,
                   wk, processorType, closed, sc>>

SpawnEnd ==
    /\ pc = "spawn"
    /\ \A c \in DOMAIN openChannels : openChannels[c].active
    /\ pc' = "select"
    /\ cur' = 0
    /\ firstIter' = FALSE
    /\ UNCHANGED <<filter, ctxDone, chanCap, openChannels, channels, wg,
                   errCh, attempt, workers, retired, spawnedFirst, discovered, ft,
                   wk, processorType, closed, sc>>

\* case channel = <-channels, then channel.active = false
SelectRecv ==
    /\ pc = "select"
    /\ channels # <<>>
    /\ cur' = Head(channels)
    /\ channels' = Tail(channels)
    /\ openChannels' = MarkInactive(openChannels, Head(channels))
    /\ attempt' = 1
    /\ pc' = "queryChannel"
    /\ UNCHANGED <<filter, ctxDone, chanCap, wg, errCh, workers,
                   retired, firstIter, spawnedFirst, discovered, ft,
                   wk, processorType, closed, sc>>

\* case <-ctx.Done()
SelectCancel ==
    /\ pc = "select"
    /\ ctxDone
    /\ pc' = "wgWait"
    /\ UNCHANGED <<filter, ctxDone, chanCap, openChannels, channels, wg,
                   errCh, cur, attempt, workers, retired, firstIter, spawnedFirst,
                   discovered, ft,
                   wk, processorType, closed, sc>>

\* wg.Wait() returns, errCh <- ctx.Err()
WgWait ==
    /\ pc = "wgWait"
    /\ wg = 0
    /\ Terminate(Canceled)
    /\ UNCHANGED <<filter, ctxDone, chanCap, openChannels, channels, wg,
                   cur, attempt, workers, retired, firstIter, spawnedFirst,
                   discovered, ft,
                   wk, processorType, closed, sc>>

\* one attempt of retry.Do around QueryChannel, then the OPEN test
QueryChannel ==
    /\ pc = "queryChannel"
    /\ \/ \E st \in ChannelStates :
             /\ CallCanSucceed
             /\ openChannels' = RetireIfNotOpen(openChannels, cur, st)
             /\ retired' = IF st # OPEN THEN retired \cup {cur} ELSE retired
             /\ attempt' = 1
             /\ pc' = "loopTop"
             /\ UNCHANGED errCh
       \/ \E e \in ProviderErrs :
             IF attempt = RtyAttNum
             THEN /\ Terminate(e)
                  /\ attempt' = 1
                  /\ UNCHANGED <<openChannels, retired>>
             ELSE IF ctxDone
             THEN /\ Terminate(Canceled)
                  /\ attempt' = 1
                  /\ UNCHANGED <<openChannels, retired>>
             ELSE /\ attempt' = attempt + 1
                  /\ UNCHANGED <<openChannels, retired, errCh, pc>>
    /\ UNCHANGED <<filter, ctxDone, chanCap, channels, wg, cur, workers,
                   firstIter, spawnedFirst, discovered, ft,
                   wk, processorType, closed, sc>>

Scheduler ==
    \/ QueryHeight
    \/ QueryChannels
    \/ LoopTop
    \/ \E c \in ChannelIds : Spawn(c)
    \/ SpawnEnd
    \/ SelectRecv
    \/ SelectCancel
    \/ WgWait
    \/ QueryChannel

\* ---------------------------------------- relayUnrelayedPacketsAndAcks
\* what one packet pass can meet after the heights are known: no unrelayed
\* sequences, RelayPackets returning nil, a context error, the "transaction
\* indexing is disabled" error, or another application error
PacketOutcomes ==
    IF CallCanSucceed THEN {"empty", "relayed", "ctxErr", "indexingDisabled", "appErr"}
    ELSE {"empty", "ctxErr"}

\* return value of relayUnrelayedPackets for each outcome
relayUnrelayedPacketsOk(o) == o \in {"empty", "relayed", "appErr"}

\* what one direction of the ack pass can meet: no sequences and no error, no
\* sequences and a query error, relayAcknowledgements returning nil, a context
\* error, or another application error
AckOutcomes ==
    IF CallCanSucceed THEN {"none", "queryErr", "relayed", "ctxErr", "appErr"}
    ELSE {"none", "queryErr", "ctxErr"}

\* relayUnrelayedAcksHelper returns a non-nil error
relayUnrelayedAcksHelperErr(o) == o \in {"queryErr", "ctxErr", "appErr"}

\* the deferred function forgets wg.Done()
wgDoneForgotten(n) == n

\* wg.Done()
wgDone(n) == n - 1

\* the select of the one-second sleep takes the ctx.Done() case
SleepInterrupted(done) == done

SetWorker(c, i, w) ==
    /\ workers' = [workers EXCEPT ![c][i] = w]
    /\ UNCHANGED <<filter, ctxDone, schedVars, ft,
                   wk, processorType, closed, sc>>

\* QueryLatestHeights at the start of relayUnrelayedPackets
PkHeights(c, i) ==
    /\ workers[c][i].pc = "pkHeights"
    /\ \E ok \in {CallCanSucceed, FALSE} :
           SetWorker(c, i, [workers[c][i] EXCEPT !.pc = IF ok THEN "pkRelay" ELSE "deferDone"])

\* UnrelayedSequences and RelayPackets
PkRelay(c, i) ==
    /\ workers[c][i].pc = "pkRelay"
    /\ \E o \in PacketOutcomes :
           SetWorker(c, i, [workers[c][i] EXCEPT
               !.pc = IF relayUnrelayedPacketsOk(o) THEN "ackHeights" ELSE "deferDone"])

\* QueryLatestHeights at the start of relayUnrelayedAcks, then the two go func()
AckHeights(c, i) ==
    /\ workers[c][i].pc = "ackHeights"
    /\ \/ /\ CallCanSucceed
          /\ SetWorker(c, i, [pc |-> "ackWait", srcAck |-> "running", dstAck |-> "running"])
       \/ SetWorker(c, i, [workers[c][i] EXCEPT !.pc = "deferDone"])

AckSrc(c, i) ==
    /\ workers[c][i].pc = "ackWait"
    /\ workers[c][i].srcAck = "running"
    /\ \E o \in AckOutcomes :
           SetWorker(c, i, [workers[c][i] EXCEPT
               !.srcAck = IF relayUnrelayedAcksHelperErr(o) THEN "err" ELSE "nil"])

AckDst(c, i) ==
    /\ workers[c][i].pc = "ackWait"
    /\ workers[c][i].dstAck = "running"
    /\ \E o \in AckOutcomes :
           SetWorker(c, i, [workers[c][i] EXCEPT
               !.dstAck = IF relayUnrelayedAcksHelperErr(o) THEN "err" ELSE "nil"])

\* wg.Wait() of the ack pass returns, then the two error tests
AckJoin(c, i) ==
    /\ workers[c][i].pc = "ackWait"
    /\ workers[c][i].srcAck \in {"nil", "err"}
    /\ workers[c][i].dstAck \in {"nil", "err"}
    /\ SetWorker(c, i, [pc |-> IF workers[c][i].srcAck = "err" \/ workers[c][i].dstAck = "err"
                               THEN "deferDone" ELSE "sleep",
                        srcAck |-> "idle", dstAck |-> "idle"])

\* select { case <-time.After(time.Second): case <-ctx.Done(): return }
Sleep(c, i) ==
    /\ workers[c][i].pc = "sleep"
    /\ SetWorker(c, i, [workers[c][i] EXCEPT
           !.pc = IF SleepInterrupted(ctxDone) THEN "deferDone" ELSE "pkHeights"])

\* deferred wg.Done()
DeferDone(c, i) ==
    /\ workers[c][i].pc = "deferDone"
    /\ wg' = wgDone(wg)
    /\ workers' = [workers EXCEPT ![c][i].pc = "deferSend"]
    /\ UNCHANGED <<filter, ctxDone, pc, chanCap, openChannels, channels,
                   errCh, cur, attempt, retired, firstIter, spawnedFirst, discovered, ft,
                   wk, processorType, closed, sc>>

\* deferred channels <- srcChannel, after which the task is gone
DeferSend(c, i) ==
    /\ workers[c][i].pc = "deferSend"
    /\ Len(channels) < chanCap
    /\ channels' = Append(channels, c)
    /\ workers' = [workers EXCEPT ![c] = RemoveAt(@, i)]
    /\ UNCHANGED <<filter, ctxDone, pc, chanCap, openChannels, wg,
                   errCh, cur, attempt, retired, firstIter, spawnedFirst, discovered, ft,
                   wk, processorType, closed, sc>>

Worker(c, i) ==
    \/ PkHeights(c, i)
    \/ PkRelay(c, i)
    \/ AckHeights(c, i)
    \/ AckSrc(c, i)
    \/ AckDst(c, i)
    \/ AckJoin(c, i)
    \/ Sleep(c, i)
    \/ DeferDone(c, i)
    \/ DeferSend(c, i)

Workers == \E c \in ChannelIds : \E i \in 1..Len(workers[c]) : Worker(c, i)

Next ==
    \/ Cancel
    \/ Scheduler
    \/ Workers

Spec == Init /\ [][Next]_vars

\* -------------------------------------------------- fair scheduling
\* every goroutine that can take a step eventually takes one
FairSpec ==
    /\ Spec
    /\ WF_vars(Scheduler)
    /\ \A c \in ChannelIds : WF_vars(\E i \in 1..Len(workers[c]) : Worker(c, i))

\* ------------------------------------------- relayerStartEventProcessor
\* what ep.Run(ctx) returns: nil, the context error once cancelled, or the
\* first terminal error of a processor
ProcessorErr == "processor failed"

EventProcessorResults == {"nil", ProcessorErr} \cup (IF ctxDone THEN {Canceled} ELSE {})

\* the deferred close is forgotten
closeErrChForgotten(isClosed) == isClosed

\* defer close(errCh)
closeErrCh(isClosed) == TRUE

\* errCh <- ep.Run(ctx)
EventRun ==
    /\ pc = "epRun"
    /\ \E r \in EventProcessorResults :
           /\ Len(errCh) < 1
           /\ errCh' = Append(errCh, r)
    /\ pc' = "epReturn"
    /\ UNCHANGED <<filter, ctxDone, chanCap, openChannels, channels, wg, cur, attempt,
                   workers, retired, firstIter, spawnedFirst, discovered, ft,
                   wk, processorType, closed, sc>>

\* the function returns and its deferred call runs
EventReturn ==
    /\ pc = "epReturn"
    /\ closed' = closeErrCh(closed)
    /\ pc' = "done"
    /\ UNCHANGED <<filter, ctxDone, chanCap, openChannels, channels, wg, errCh, cur,
                   attempt, workers, retired, firstIter, spawnedFirst, discovered, ft,
                   wk, processorType, sc>>

\* StartRelayer in either mode
InitStart ==
    /\ filter \in SchedulerFilters
    /\ processorType \in {ProcessorEvents, ProcessorLegacy}
    /\ closed = FALSE
    /\ ctxDone = FALSE
    /\ pc = IF processorType = ProcessorEvents THEN "epRun" ELSE "queryHeight"
    /\ chanCap = 0
    /\ openChannels = <<>>
    /\ channels = <<>>
    /\ wg = 0
    /\ errCh = <<>>
    /\ cur = 0
    /\ attempt = 1
    /\ workers = [c \in ChannelIds |-> <<>>]
    /\ retired = {}
    /\ firstIter = TRUE
    /\ spawnedFirst = {}
    /\ discovered = <<>>
    /\ ft = NoFilterRun
    /\ wk = NoWorkerRun
    /\ sc = NoSettlementRun

NextStart ==
    \/ Next
    \/ EventRun
    \/ EventReturn

SpecStart == InitStart /\ [][NextStart]_vars

\* ------------------------------- one channel worker, followed call by call
\* wk.diffs and wk.tx record, for the current cycle, that a sequence diff was
\* not empty and that RelayPackets or relayAcknowledgements was invoked;
\* wk.discarded records that the worker before this one, on the same channel,
\* ended with a cache that was not empty
Directions == {"src", "dst"}

SeqNumbers == 1..MaxSeq

NilErr == "nil"
AppErr == "application error"
DeadlineExceeded == "context deadline exceeded"

\* error messages of RelayPackets are sequences of words, nil is the empty one
IndexingDisabledText == <<"Internal error:", "transaction indexing is disabled">>

\* strings.Contains
Contains(msg, text) ==
    \E i \in 1..(Len(msg) + 1 - Len(text)) : SubSeq(msg, i, i + Len(text) - 1) = text

\* errors.Is(err, context.DeadlineExceeded) || errors.Is(err, context.Canceled)
IsContextErr(e) == e \in {Canceled, DeadlineExceeded}

\* what RelayPackets can return
RelayPacketsErrors ==
    IF CallCanSucceed
    THEN {<<>>, <<DeadlineExceeded>>, <<AppErr>>,
          <<"rpc error:", "Internal error:", "transaction indexing is disabled">>,
          <<"rpc error:", "transaction indexing is disabled">>}
    ELSE {<<Canceled>>, <<DeadlineExceeded>>}

\* what relayAcknowledgements can return
RelayAcknowledgementsErrors ==
    IF CallCanSucceed THEN {NilErr, DeadlineExceeded, AppErr} ELSE {Canceled, DeadlineExceeded}

\* the sequences UnrelayedSequences can report for the two directions
PacketSequences == [Src : SUBSET SeqNumbers, Dst : SUBSET SeqNumbers]

\* RelaySequences.Empty
Empty(sp) == sp.Src = {} /\ sp.Dst = {}

\* the early return is missing
PacketsStopEarlyNever(sp) == FALSE

\* if sp.Empty() { return true }
PacketsStopEarly(sp) == Empty(sp)

\* the indexing hint is logged and the pass keeps going
relayUnrelayedPacketsResultHintContinues(err) ==
    IF err = <<>> THEN TRUE
    ELSE IF Len(err) = 1 /\ IsContextErr(err[1]) THEN FALSE
    ELSE TRUE

\* return value of relayUnrelayedPackets once RelayPackets has returned err
relayUnrelayedPacketsResult(err) ==
    IF err = <<>> THEN TRUE
    ELSE IF Len(err) = 1 /\ IsContextErr(err[1]) THEN FALSE
    ELSE IF Contains(err, IndexingDisabledText) THEN FALSE
    ELSE TRUE

\* the results of unrelayedAcknowledgements for a cache: the sequences not yet
\* in the cache that are unrelayed, the candidate cache extended by them, and
\* the error of the query
unrelayedAcknowledgements(relayed) ==
    {[sequences |-> Ascending(S), candidate |-> relayed \o Ascending(S), err |-> e] :
        <<S, e>> \in (SUBSET (SeqNumbers \ Range(relayed)))
                     \X ({QueryErr} \cup (IF CallCanSucceed THEN {NilErr} ELSE {}))}

\* both tasks are handed the source cache
AckCacheArgShared(d) == "src"

\* the cache pointer passed to the task of direction d
AckCacheArg(d) == d

\* if len(sequences) != 0
AcksToRelay(sequences) == Len(sequences) # 0

\* the candidate is written whatever the error
CommitCacheAlways(cache, ptr, candidate, err) == [cache EXCEPT ![ptr] = candidate]

\* the cache is emptied when the helper ends with an error
CommitCacheOrReset(cache, ptr, candidate, err) ==
    [cache EXCEPT ![ptr] = IF err # NilErr THEN <<>> ELSE candidate]

\* if err != nil { log } else { *relayedAckSequences = relayedAckSequencesCandidated }
CommitCache(cache, ptr, candidate, err) ==
    IF err # NilErr THEN cache ELSE [cache EXCEPT ![ptr] = candidate]

\* the ack pass does not wait for its tasks
AckTasksJoinedNoWait(task) == TRUE

\* wg.Wait() of relayUnrelayedAcks
AckTasksJoined(task) == \A d \in Directions : task[d].pc = "done"

\* the two error tests after wg.Wait()
relayUnrelayedAcksResult(task) == \A d \in Directions : task[d].err = NilErr

IdleTask(d) == [pc |-> "idle", ptr |-> d, candidate |-> <<>>, sequences |-> <<>>, err |-> NilErr]

\* relayUnrelayedPacketsAndAcks has just been started for channel 1
WorkerStarted ==
    [pc |-> "pkHeights", sp |-> [Src |-> {}, Dst |-> {}], pkErr |-> <<>>,
     diffs |-> FALSE, tx |-> FALSE,
     cache |-> [d \in Directions |-> <<>>],
     task |-> [d \in Directions |-> IdleTask(d)],
     aborted |-> FALSE, discarded |-> FALSE]

\* the scheduler has spawned the worker of its one open channel and waits
InitWorker ==
    /\ filter = [Rule |-> "", ChannelList |-> <<>>]
    /\ LegacyInit
    /\ ctxDone = FALSE
    /\ pc = "select"
    /\ chanCap = 1
    /\ discovered = <<[ChannelId |-> 1, State |-> OPEN]>>
    /\ openChannels = [c \in {1} |-> [channel |-> [ChannelId |-> 1, State |-> OPEN], active |-> TRUE]]
    /\ channels = <<>>
    /\ wg = 1
    /\ errCh = <<>>
    /\ cur = 0
    /\ attempt = 1
    /\ workers = [c \in ChannelIds |-> <<>>]
    /\ retired = {}
    /\ firstIter = FALSE
    /\ spawnedFirst = {1}
    /\ ft = NoFilterRun
    /\ wk = WorkerStarted
    /\ sc = NoSettlementRun

SetWk(w) ==
    /\ wk' = w
    /\ UNCHANGED <<filter, ctxDone, schedVars, workers, ft, processorType, closed, sc>>

\* QueryLatestHeights at the start of relayUnrelayedPackets
WkPkHeights ==
    /\ wk.pc = "pkHeights"
    /\ \E ok \in {CallCanSucceed, FALSE} :
           SetWk([wk EXCEPT !.pc = IF ok THEN "pkDiff" ELSE "deferDone",
                            !.pkErr = <<>>, !.diffs = FALSE, !.tx = FALSE])

\* UnrelayedSequences and the test of sp.Empty()
WkPkDiff ==
    /\ wk.pc = "pkDiff"
    /\ \E sp \in PacketSequences :
           SetWk([wk EXCEPT !.sp = sp,
                            !.diffs = ~Empty(sp),
                            !.pc = IF PacketsStopEarly(sp) THEN "ackHeights" ELSE "pkRelay"])

\* RelayPackets is invoked and returns
WkPkRelay ==
    /\ wk.pc = "pkRelay"
    /\ \E err \in RelayPacketsErrors :
           SetWk([wk EXCEPT !.tx = TRUE, !.pkErr = err, !.pc = "pkResult",
                            !.sp = [Src |-> {}, Dst |-> {}]])

\* the tests of the error of RelayPackets
WkPkResult ==
    /\ wk.pc = "pkResult"
    /\ SetWk([wk EXCEPT !.pc = IF relayUnrelayedPacketsResult(wk.pkErr)
                               THEN "ackHeights" ELSE "deferDone"])

\* QueryLatestHeights at the start of relayUnrelayedAcks, then the two go func()
WkAckHeights ==
    /\ wk.pc = "ackHeights"
    /\ \/ /\ CallCanSucceed
          /\ SetWk([wk EXCEPT !.pc = "ackWait",
                              !.pkErr = <<>>,
                              !.task = [d \in Directions |->
                                           [IdleTask(d) EXCEPT !.pc = "start", !.ptr = AckCacheArg(d)]]])
       \/ SetWk([wk EXCEPT !.pc = "deferDone"])

\* the copy of the cache, unrelayedAcknowledgements, the test of the sequences
\* and the panic
TaskDiff(d) ==
    /\ wk.task[d].pc = "start"
    /\ \E r \in unrelayedAcknowledgements(wk.cache[wk.task[d].ptr]) :
           LET panics == AcksToRelay(r.sequences) /\ r.err # NilErr
           IN SetWk([wk EXCEPT !.task[d].candidate = r.candidate,
                               !.task[d].sequences = r.sequences,
                               !.task[d].err = r.err,
                               !.diffs = wk.diffs \/ Len(r.sequences) # 0,
                               !.task[d].pc = IF panics THEN "panicked"
                                              ELSE IF AcksToRelay(r.sequences) THEN "relay"
                                              ELSE "commit",
                               !.aborted = panics])

\* relayAcknowledgements is invoked and returns; a context error is returned at once
TaskRelay(d) ==
    /\ wk.task[d].pc = "relay"
    /\ \E err \in RelayAcknowledgementsErrors :
           SetWk([wk EXCEPT !.tx = TRUE,
                            !.task[d].err = err,
                            !.task[d].sequences = <<>>,
                            !.task[d].candidate = IF IsContextErr(err) THEN <<>> ELSE @,
                            !.task[d].pc = IF IsContextErr(err) THEN "done" ELSE "commit"])

\* the last test of err, return err and the deferred wg.Done()
TaskCommit(d) ==
    /\ wk.task[d].pc = "commit"
    /\ SetWk([wk EXCEPT !.cache = CommitCache(wk.cache, wk.task[d].ptr,
                                              wk.task[d].candidate, wk.task[d].err),
                        !.task[d].candidate = <<>>,
                        !.task[d].sequences = <<>>,
                        !.task[d].pc = "done"])

\* wg.Wait() of the ack pass returns, then the two error tests
WkAckJoin ==
    /\ wk.pc = "ackWait"
    /\ AckTasksJoined(wk.task)
    /\ SetWk([wk EXCEPT !.pc = IF relayUnrelayedAcksResult(wk.task) THEN "sleep" ELSE "deferDone"])

\* select { case <-time.After(time.Second): case <-ctx.Done(): return }
WkSleep ==
    /\ wk.pc = "sleep"
    /\ SetWk([wk EXCEPT !.pc = IF SleepInterrupted(ctxDone) THEN "deferDone" ELSE "pkHeights"])

\* deferred wg.Done()
WkDeferDone ==
    /\ wk.pc = "deferDone"
    /\ wg' = wgDone(wg)
    /\ wk' = [wk EXCEPT !.pc = "deferSend"]
    /\ UNCHANGED <<filter, ctxDone, pc, chanCap, openChannels, channels,
                   errCh, cur, attempt, workers, retired, firstIter, spawnedFirst,
                   discovered, ft, processorType, closed, sc>>

\* deferred channels <- srcChannel
WkDeferSend ==
    /\ wk.pc = "deferSend"
    /\ Len(channels) < chanCap
    /\ channels' = Append(channels, 1)
    /\ wk' = [wk EXCEPT !.pc = "exited"]
    /\ UNCHANGED <<filter, ctxDone, pc, chanCap, openChannels, wg,
                   errCh, cur, attempt, workers, retired, firstIter, spawnedFirst,
                   discovered, ft, processorType, closed, sc>>

\* a panic that nothing recovers ends the whole process
ProcessAlive == ~wk.aborted

WorkerRun ==
    /\ ProcessAlive
    /\ \/ WkPkHeights
       \/ WkPkDiff
       \/ WkPkRelay
       \/ WkPkResult
       \/ WkAckHeights
       \/ \E d \in Directions : TaskDiff(d)
       \/ \E d \in Directions : TaskRelay(d)
       \/ \E d \in Directions : TaskCommit(d)
       \/ WkAckJoin
       \/ WkSleep
       \/ WkDeferDone
       \/ WkDeferSend

NextWorker ==
    \/ Cancel /\ ProcessAlive
    \/ WorkerRun

SpecWorker == InitWorker /\ [][NextWorker]_vars

\* ------------------------ the scheduler restarting the worker it follows
\* the caches of the worker that exited are handed to the next one
SpawnedWorkerKeepsCaches(old) == [WorkerStarted EXCEPT !.cache = old.cache]

\* go relayUnrelayedPacketsAndAcks(...): the invocation makes its own caches
SpawnedWorker(old) == WorkerStarted

\* the turn of the range loop that finds channel 1 with active = false
SpawnFollowed ==
    /\ pc = "spawn"
    /\ 1 \in DOMAIN openChannels
    /\ ~openChannels[1].active
    /\ openChannels' = ActivateChannel(openChannels, 1)
    /\ wg' = wg + 1
    /\ wk' = [SpawnedWorker(wk) EXCEPT
                 !.discarded = \E d \in Directions : wk.cache[d] # <<>>]
    /\ spawnedFirst' = IF firstIter THEN spawnedFirst \cup {1} ELSE spawnedFirst
    /\ UNCHANGED <<filter, ctxDone, pc, chanCap, channels, errCh, cur,
                   attempt, workers, retired, firstIter, discovered, ft,
                   processorType, closed, sc>>

SchedulerRespawn ==
    /\ ProcessAlive
    /\ \/ LoopTop
       \/ SpawnFollowed
       \/ SpawnEnd
       \/ SelectRecv
       \/ SelectCancel
       \/ WgWait
       \/ QueryChannel

NextRespawn ==
    \/ NextWorker
    \/ SchedulerRespawn

SpecRespawn == InitWorker /\ [][NextRespawn]_vars

\* --------------------------------------------------- NewSettlementProvider
\* the goroutines that call NewSettlementProvider, each with its own
\* *CosmosProvider; caller p hands in provider p, and the singleton made from
\* it is written p
Callers == 1..MaxCallers

\* nil, and the unlocked mutex
Nil == 0

\* lock, furyaProviderSingleton, no call made yet, no load of the singleton yet
SettlementStart ==
    [lock |-> Nil, singleton |-> Nil,
     pc |-> [p \in Callers |-> "idle"],
     ret |-> [p \in Callers |-> [provider |-> Nil, err |-> FALSE]],
     seen |-> {}]

InitSettlement ==
    /\ sc = SettlementStart
    /\ filter = NoFilterRun.filter
    /\ SchedulerInit
    /\ LegacyInit
    /\ ft = NoFilterRun
    /\ wk = NoWorkerRun

SetSc(v) ==
    /\ sc' = v
    /\ UNCHANGED <<filter, ctxDone, schedVars, workers, ft, wk, processorType, closed>>

\* the mutex lets every caller in
LockAvailableAlways(l) == TRUE

\* lock.Lock() returns only when no goroutine holds the mutex
LockAvailable(l) == l = Nil

\* a goroutine calls NewSettlementProvider(cp)
CallNew(p) ==
    /\ sc.pc[p] = "idle"
    /\ SetSc([sc EXCEPT !.pc[p] = "lock"])

\* lock.Lock()
Lock(p) ==
    /\ sc.pc[p] = "lock"
    /\ LockAvailable(sc.lock)
    /\ SetSc([sc EXCEPT !.lock = p, !.pc[p] = "test"])

\* if furyaProviderSingleton != nil { return nil, fmt.Errorf(...) }
TestSingleton(p) ==
    /\ sc.pc[p] = "test"
    /\ SetSc(IF sc.singleton # Nil
             THEN [sc EXCEPT !.ret[p] = [provider |-> Nil, err |-> TRUE], !.pc[p] = "unlock"]
             ELSE [sc EXCEPT !.pc[p] = "set"])

\* furyaProviderSingleton = &GridironSettlementProvider{cp}; return it, nil
SetSingleton(p) ==
    /\ sc.pc[p] = "set"
    /\ SetSc([sc EXCEPT !.singleton = p,
                        !.ret[p] = [provider |-> p, err |-> FALSE],
                        !.pc[p] = "unlock"])

\* the deferred lock.Unlock(), then the call has returned
Unlock(p) ==
    /\ sc.pc[p] = "unlock"
    /\ SetSc([sc EXCEPT !.lock = Nil, !.pc[p] = "returned"])

\* the load of furyaProviderSingleton in GetLatestFinalizedStateHeight, made
\* without the lock
LoadSingleton ==
    /\ sc.singleton \notin sc.seen
    /\ SetSc([sc EXCEPT !.seen = @ \cup {sc.singleton}])

NextSettlement ==
    \/ \E p \in Callers : CallNew(p)
    \/ \E p \in Callers : Lock(p)
    \/ \E p \in Callers : TestSingleton(p)
    \/ \E p \in Callers : SetSingleton(p)
    \/ \E p \in Callers : Unlock(p)
    \/ LoadSingleton

SpecSettlement == InitSettlement /\ [][NextSettlement]_vars

\* ------------------------------------- the channel filter as a pure function
InitFilter ==
    /\ ft \in [filter : Filters(MaxFilterLen),
               channels : SeqsUpTo(IdentifiedChannels, MaxFilterLen),
               out : {<<>>}, applied : {FALSE}]
    /\ filter = NoFilterRun.filter
    /\ SchedulerInit
    /\ LegacyInit
    /\ wk = NoWorkerRun
    /\ sc = NoSettlementRun

ApplyFilter ==
    /\ ~ft.applied
    /\ ft' = [ft EXCEPT !.out = applyChannelFilterRule(ft.filter, ft.channels),
                        !.applied = TRUE]
    /\ UNCHANGED <<filter, ctxDone, schedVars, workers, wk, processorType, closed, sc>>

NextFilter == ApplyFilter

SpecFilter == InitFilter /\ [][NextFilter]_vars

\* =================================================================== claims
Live(c) == Len(workers[c])

Pending(c) == Count(channels, c)

AllWorkersExited == \A c \in ChannelIds : workers[c] = <<>>

\* C1: for every channel in openChannels at most one worker task that was
\* spawned for it has not yet sent its completion signal.
C1_AtMostOneLiveWorker == \A c \in DOMAIN openChannels : Live(c) <= 1

\* a channel whose completion was dequeued has been given a new worker while
\* the scheduler is still in that spawn loop
C1_Witness ==
    /\ pc = "spawn"
    /\ cur \in DOMAIN openChannels
    /\ Live(cur) = 1
    /\ workers[cur][1].pc = "pkHeights"

\* C2 as stated: an entry with active = true always has exactly one worker task
\* in existence.
C2_ActiveHasExactlyOneWorker ==
    \A c \in DOMAIN openChannels : openChannels[c].active => Live(c) = 1

C2_ActiveInv ==
    \A c \in DOMAIN openChannels :
        /\ openChannels[c].active => Live(c) + Pending(c) = 1
        /\ ~openChannels[c].active => Live(c) + Pending(c) = 0

C2_FlagStep ==
    \A c \in DOMAIN openChannels :
        /\ openChannels[c].active => c \in DOMAIN openChannels'
        /\ (openChannels[c].active /\ ~openChannels'[c].active) =>
               /\ channels # <<>>
               /\ Head(channels) = c
               /\ channels' = Tail(channels)
        /\ Len(workers'[c]) > Len(workers[c]) => ~openChannels[c].active

\* C2 (amended): an entry with active = true has exactly one worker that is
\* either still in existence or has exited leaving its completion signal
\* undelivered in the queue; the flag goes back to false only in the step that
\* dequeues that signal, and a worker is spawned only for an entry whose flag
\* is false.
C2_ActiveUntilDequeued == []C2_ActiveInv /\ [][C2_FlagStep]_vars

\* the flag is still true although the worker is gone: its signal waits in the queue
C2_Witness ==
    \E c \in DOMAIN openChannels :
        openChannels[c].active /\ Live(c) = 0 /\ Pending(c) = 1

\* C3: a scheduler step taken at the top of the loop with an empty openChannels
\* map puts the "no open channels" error on the failure channel and ends the
\* scheduler, with no worker spawned.
C3_EmptyMapTerminates ==
    [][(pc = "loopTop" /\ DOMAIN openChannels = {} /\ pc' # pc) =>
           /\ pc' = "done"
           /\ errCh' = <<NoOpenChannelsErr>>
           /\ workers' = workers
           /\ wg' = wg]_vars

\* the error was reported after every channel had been retired
C3_Witness ==
    /\ pc = "done"
    /\ errCh = <<NoOpenChannelsErr>>
    /\ retired # {}

C4_RetiredInv == \A c \in retired : c \notin DOMAIN openChannels

C4_RetiredStep == \A c \in retired' : Len(workers'[c]) <= Len(workers[c])

\* C4: a channel whose re-query returned a state other than OPEN is no longer in
\* openChannels, and no worker is spawned for it from then on.
C4_RetiredNeverRespawned == []C4_RetiredInv /\ [][C4_RetiredStep]_vars

\* a channel has been retired and the scheduler went on with the others
C4_Witness ==
    /\ retired # {}
    /\ pc = "select"
    /\ \E c \in DOMAIN openChannels : Live(c) = 1

PassesRule(f, id) ==
    IF f.Rule = allowList THEN id \in Range(f.ChannelList)
    ELSE IF f.Rule = denyList THEN id \notin Range(f.ChannelList)
    ELSE TRUE

OpenAndPassing ==
    {discovered[i].ChannelId : i \in {j \in 1..Len(discovered) :
        discovered[j].State = OPEN /\ PassesRule(filter, discovered[j].ChannelId)}}

\* C5: the channels given a worker in the first loop iteration are exactly the
\* discovered channels that pass the filter rule and were OPEN at discovery; a
\* channel outside that set never has a worker.
C5_FirstSpawnSet ==
    /\ spawnedFirst \subseteq OpenAndPassing
    /\ ~firstIter => spawnedFirst = OpenAndPassing
    /\ \A c \in ChannelIds \ OpenAndPassing : workers[c] = <<>>

\* the first iteration is over, some channel got a worker and some discovered
\* channel did not
C5_Witness ==
    /\ ~firstIter
    /\ spawnedFirst # {}
    /\ Cardinality(spawnedFirst) < Len(discovered)

\* C6: the result of applyChannelFilterRule is a subsequence of its input, and
\* filtering the result again changes nothing.
C6_SubsequenceAndIdempotent ==
    ft.applied =>
        /\ IsSubseq(ft.out, ft.channels)
        /\ applyChannelFilterRule(ft.filter, ft.out) = ft.out

\* the filter dropped one channel of three and kept two
C6_Witness ==
    /\ ft.applied
    /\ Len(ft.channels) = 3
    /\ Len(ft.out) = 2
    /\ ft.out[1] # ft.out[2]

\* C7: allow keeps exactly the channels whose id is in the list, deny exactly
\* those whose id is not, any other rule keeps all; with an empty list allow
\* yields nothing and deny yields everything.
C7_FilterSemantics ==
    ft.applied =>
        LET inList(ch) == ch.ChannelId \in Range(ft.filter.ChannelList)
            notInList(ch) == ch.ChannelId \notin Range(ft.filter.ChannelList)
        IN /\ ft.filter.Rule = allowList => ft.out = SelectSeq(ft.channels, inList)
           /\ ft.filter.Rule = denyList => ft.out = SelectSeq(ft.channels, notInList)
           /\ ft.filter.Rule = "" => ft.out = ft.channels
           /\ (ft.filter.ChannelList = <<>> /\ ft.filter.Rule = allowList) => ft.out = <<>>
           /\ (ft.filter.ChannelList = <<>> /\ ft.filter.Rule = denyList) => ft.out = ft.channels

\* a deny list that drops some of the channels and keeps others
C7_Witness ==
    /\ ft.applied
    /\ ft.filter.Rule = denyList
    /\ ft.out # <<>>
    /\ Len(ft.out) < Len(ft.channels)

\* every worker task has at least run its deferred wg.Done()
AllWorkersDone == \A c \in ChannelIds : \A i \in 1..Len(workers[c]) : workers[c][i].pc = "deferSend"

\* C8: the cancellation error is on the failure channel only after every spawned
\* worker has exited (read leniently: has at least run wg.Done()).
C8_CancelErrorAfterWorkersExit == errCh = <<Canceled>> => AllWorkersDone

\* the cancellation error, or the error of a query the cancellation cut short
CancellationErrors == {Canceled, QueryErr, WrapQueryAllChannels(QueryErr)}

TerminalErrors == CancellationErrors \cup {NoOpenChannelsErr}

C10_SendNeverBlocks ==
    /\ Len(channels) <= chanCap
    /\ \A c \in ChannelIds : \A i \in 1..Len(workers[c]) :
           workers[c][i].pc = "deferSend" => Len(channels) < chanCap

\* the scheduler is gone, a signal lies in the queue and another worker is at its send
C10_Witness ==
    /\ pc = "done"
    /\ channels # <<>>
    /\ \E c \in ChannelIds : \E i \in 1..Len(workers[c]) : workers[c][i].pc = "deferSend"

\* C11 as stated: a panic raised in a worker, the fatal assertion of the ack
\* helper included, does not escape the worker: the process stays alive, so
\* that the completion signal can be delivered and the scheduler keeps running.
C11_PanicDoesNotEscape ==
    (\E d \in Directions : wk.task[d].pc = "panicked") => ProcessAlive

RelayPacketsInvoked == wk.pc = "pkRelay" /\ wk'.pc = "pkResult"

relayAcknowledgementsInvoked(d) == wk.task[d].pc = "relay" /\ wk'.task[d].pc # "relay"

C12_Step ==
    /\ RelayPacketsInvoked => ~Empty(wk.sp)
    /\ (wk.pc = "pkDiff" /\ wk'.pc # "pkDiff" /\ Empty(wk'.sp)) => wk'.pc = "ackHeights"
    /\ \A d \in Directions :
           /\ relayAcknowledgementsInvoked(d) => Len(wk.task[d].sequences) # 0
           /\ (wk.task[d].pc = "start" /\ wk'.task[d].pc # "start" /\ Len(wk'.task[d].sequences) = 0)
                  => wk'.task[d].pc = "commit"

\* C12: RelayPackets is invoked only with a packet diff that is not empty, and
\* relayAcknowledgements of a direction only with acknowledgement sequences
\* that are not empty; a cycle in which no diff was non-empty has invoked
\* neither.
C12_NothingSubmittedWhenEmpty == [](wk.tx => wk.diffs) /\ [][C12_Step]_vars

\* a whole cycle went by with every diff empty and nothing submitted
C12_Witness ==
    /\ wk.pc = "sleep"
    /\ ~wk.diffs
    /\ ~wk.tx

\* C13: in each direction, every sequence in the worker's RelayedAckCache is
\* still in it after any step of the worker.
C13_CacheMonotone ==
    [][\A d \in Directions : Range(wk.cache[d]) \subseteq Range(wk'.cache[d])]_vars

\* a cache that grew in two different passes, and a pass that ended in an error
\* after it
C13_Witness ==
    \E d \in Directions :
        /\ Len(wk.cache[d]) >= 2
        /\ wk.cache[d][1] > wk.cache[d][2]
        /\ wk.task[d].pc = "done"
        /\ wk.task[d].err # NilErr

\* the run has ended without a failure: ep.Run returned nil, or the run was
\* shut down by cancelling the root context
CleanTermination == pc = "done" /\ Len(errCh) = 1 /\ errCh[1] \in {"nil", Canceled}

\* C14 as stated: the failure channel holds at most one value, a terminated run
\* has placed exactly one, and the channel is closed when the run terminated
\* cleanly, in legacy mode as in events mode.
C14_ClosedOnCleanTermination ==
    /\ Len(errCh) <= 1
    /\ pc = "done" => Len(errCh) = 1
    /\ CleanTermination => closed

\* C14 (amended): the failure channel has capacity one and nothing is placed on
\* it before the run ends, so the single send never blocks; a terminated run
\* has placed exactly one value. In events mode that value is the result of
\* ep.Run (nil on clean termination) and the channel is then closed; in legacy
\* mode the value is always an error (the cancellation error included) and the
\* channel is never closed.
C14_FailureChannel ==
    /\ Len(errCh) <= 1
    /\ pc \notin {"done", "epReturn"} => errCh = <<>>
    /\ pc # "done" => ~closed
    /\ pc = "done" => Len(errCh) = 1
    /\ (pc = "done" /\ processorType = ProcessorEvents) => closed
    /\ processorType = ProcessorLegacy => ~closed
    /\ (pc = "done" /\ processorType = ProcessorLegacy) => errCh[1] # "nil"

\* an events run ended cleanly: nil was sent and the channel closed
C14_Witness ==
    /\ pc = "done"
    /\ processorType = ProcessorEvents
    /\ errCh = <<"nil">>
    /\ closed

\* C15 as stated: when RelayPackets fails with an error containing
\* "transaction indexing is disabled" and the context is not cancelled, the
\* worker goes on to the ack pass.
C15_IndexingDisabledContinues ==
    [][(/\ wk.pc = "pkResult"
        /\ ~ctxDone
        /\ Contains(wk.pkErr, <<"transaction indexing is disabled">>))
           => wk'.pc \in {"pkResult", "ackHeights"}]_vars

C15_Step ==
    /\ (wk.pc = "pkResult" /\ wk'.pc # "pkResult") =>
           wk'.pc = IF wk.pkErr = <<>> THEN "ackHeights"
                    ELSE IF wk.pkErr \in {<<Canceled>>, <<DeadlineExceeded>>} THEN "deferDone"
                    ELSE IF Contains(wk.pkErr, IndexingDisabledText) THEN "deferDone"
                    ELSE "ackHeights"
    /\ (wk.pc = "deferDone" /\ wk'.pc # "deferDone") => (wk'.pc = "deferSend" /\ wg' = wg - 1)
    /\ (wk.pc = "deferSend" /\ wk'.pc # "deferSend") => (wk'.pc = "exited" /\ channels' = Append(channels, 1))

\* C15 (amended): when RelayPackets fails with an error containing "Internal
\* error: transaction indexing is disabled", the packet pass logs the hint and
\* reports not-ok: the worker exits without an ack pass, decrements the wait
\* group and delivers its completion signal. Any other error that is not a
\* context error, one that holds "transaction indexing is disabled" without
\* the "Internal error: " in front included, lets the worker go on to the ack
\* pass.
C15_IndexingDisabledExits == [][C15_Step]_vars

\* the worker has exited on the indexing error with the context alive
C15_Witness ==
    /\ wk.pc = "exited"
    /\ Contains(wk.pkErr, IndexingDisabledText)
    /\ ~ctxDone
    /\ channels = <<1>>

\* C16 as stated: when the only errors of the two ack directions are
\* application errors of relayAcknowledgements, the ack pass counts as
\* successful and the worker goes on to its sleep.
C16_AckAppErrorContinues ==
    [][(/\ wk.pc = "ackWait"
        /\ wk'.pc # "ackWait"
        /\ \A d \in Directions : wk.task[d].pc = "done" /\ wk.task[d].err \in {NilErr, AppErr})
           => wk'.pc = "sleep"]_vars

C17_Step ==
    /\ (pc = "queryChannels" /\ pc' = "done") => (attempt = RtyAttNum \/ ctxDone)
    /\ (pc = "queryChannels" /\ pc' = "loopTop") =>
           /\ ~ctxDone
           /\ discovered' \in ConnectionChannels
           /\ errCh' = <<>>
    /\ (pc = "queryChannels" /\ pc' = pc /\ attempt' # attempt) =>
           /\ attempt < RtyAttNum
           /\ attempt' = attempt + 1
    /\ (pc \in {"queryHeight", "queryChannels"} /\ pc' = "done") =>
           /\ Len(errCh') = 1
           /\ errCh'[1] \in {Canceled, WrapQueryAllChannels(QueryErr)}
           /\ errCh'[1] = Canceled => ctxDone

\* C17 as stated: discovery fails only after the attempts are exhausted or the
\* context is cancelled, whichever of its two provider calls failed.
C17_BothCallsRetried ==
    [][(pc \in {"queryHeight", "queryChannels"} /\ pc' = "done") =>
           (attempt = RtyAttNum \/ ctxDone)]_vars

\* C17 (amended): only the channels-on-connection query is retried: a failure
\* of it is followed by another attempt until the attempt limit or the
\* cancellation, and a success yields the channel list; a failure of the
\* latest-height query ends discovery at once. A cancellation error is placed
\* on the failure channel unwrapped, any other error wrapped.
C17_OnlyChannelsQueryRetried == [][C17_Step]_vars

\* the channels query failed once, was retried and then gave the channel list
C17_Witness ==
    /\ pc = "queryChannels"
    /\ attempt = 2
    /\ ~ctxDone

TaskRunning(d) == wk.task[d].pc \in {"start", "relay", "commit"}

C18_Step ==
    /\ (wk'.pc = "ackHeights" /\ wk.pc # "ackHeights") =>
           \/ wk.pc = "pkDiff" /\ Empty(wk'.sp)
           \/ wk.pc = "pkResult" /\ relayUnrelayedPacketsResult(wk.pkErr)
    /\ (wk.pc = "pkResult" /\ wk'.pc # "pkResult" /\ ~relayUnrelayedPacketsResult(wk.pkErr)) =>
           wk'.pc = "deferDone"
    /\ (wk.pc = "pkHeights" /\ wk'.pc \notin {"pkHeights", "pkDiff"}) => wk'.pc = "deferDone"
    /\ (wk'.pc = "ackWait" /\ wk.pc # "ackWait") =>
           /\ wk.pc = "ackHeights"
           /\ \A d \in Directions : wk'.task[d].pc = "start"
    /\ (wk.pc = "ackWait" /\ wk'.pc # "ackWait") =>
           /\ \A d \in Directions : wk.task[d].pc = "done"
           /\ wk'.pc \in {"sleep", "deferDone"}
    /\ wk.pc \in {"deferDone", "deferSend", "exited"} => wk'.pc \in {"deferDone", "deferSend", "exited"}

\* C18: the ack pass starts only after the packet pass has returned ok, a
\* direction task runs only while the worker waits in the ack pass, the worker
\* leaves the ack pass only when both tasks have finished, and a packet pass
\* that reports not-ok takes the worker to its exit without an ack pass.
C18_PassOrder == [](\A d \in Directions : TaskRunning(d) => wk.pc = "ackWait") /\ [][C18_Step]_vars

\* one direction has finished, the other is still relaying, the worker waits
C18_Witness ==
    /\ wk.pc = "ackWait"
    /\ wk.task["src"].pc = "done"
    /\ wk.task["dst"].pc = "relay"

C19_Step ==
    \A d \in Directions :
        /\ (wk.task[d].pc = "start" /\ wk'.task[d].pc \in {"relay", "commit"}) =>
               wk'.task[d].candidate = wk.cache[d] \o wk'.task[d].sequences
        /\ wk'.cache[d] # wk.cache[d] =>
               /\ wk.task[d].pc = "commit"
               /\ wk'.task[d].pc = "done"
               /\ wk'.cache[d] = wk.task[d].candidate
               /\ \A o \in Directions \ {d} : wk'.cache[o] = wk.cache[o]

\* C19: in an ack pass the task of each direction holds the pointer to the
\* cache of its own direction, reads only that cache and writes only that
\* cache, so the two running tasks never touch the same cache.
C19_DisjointCaches ==
    /\ [](\A d \in Directions : TaskRunning(d) => wk.task[d].ptr = d)
    /\ [][C19_Step]_vars

\* both tasks are about to write, each its own candidate
C19_Witness ==
    /\ wk.task["src"].pc = "commit"
    /\ wk.task["dst"].pc = "commit"
    /\ wk.task["src"].err = NilErr
    /\ wk.task["dst"].err = NilErr
    /\ wk.task["src"].candidate # <<>>
    /\ wk.task["dst"].candidate # <<>>
    /\ wk.task["src"].candidate # wk.task["dst"].candidate

C20_Inv ==
    /\ pc \notin {"queryHeight", "queryChannels"} => DOMAIN openChannels \subseteq OpenAndPassing
    /\ DOMAIN openChannels \cap retired = {}

C20_Step ==
    /\ pc \notin {"queryHeight", "queryChannels"} => DOMAIN openChannels' \subseteq DOMAIN openChannels
    /\ openChannels' # openChannels =>
           \/ pc' # pc
           \/ pc = "spawn" /\ wg' = wg + 1 /\ pc' = "spawn"

\* C20: after startup the key set of openChannels only shrinks and stays inside
\* the set computed from the one discovery; a retired channel is never back in
\* the map; the map and the active flags change only in steps of the scheduler.
C20_MapOnlyShrinks == []C20_Inv /\ [][C20_Step]_vars

\* a retired channel is out of the map while the scheduler spawns again for
\* another channel whose re-query said OPEN
C20_Witness ==
    /\ retired # {}
    /\ pc = "spawn"
    /\ cur \in DOMAIN openChannels
    /\ ~openChannels[cur].active

C21_Inv ==
    (pc = "select" /\ 1 \in DOMAIN openChannels) =>
        /\ openChannels[1].active
        /\ wk.pc = "exited" => channels = <<1>>

C21_Step ==
    /\ (pc = "queryChannel" /\ pc' \notin {"queryChannel", "done"} /\ cur \in DOMAIN openChannels') =>
           /\ pc' = "loopTop"
           /\ ~openChannels'[cur].active
    /\ (pc = "loopTop" /\ pc' # "loopTop" /\ openChannels # <<>>) => pc' = "spawn"
    /\ (pc = "spawn" /\ pc' # "spawn") =>
           /\ pc' = "select"
           /\ \A c \in DOMAIN openChannels : openChannels[c].active
    /\ (pc = "spawn" /\ openChannels' # openChannels) =>
           /\ wk.pc = "exited"
           /\ ~openChannels[1].active
           /\ openChannels'[1].active
           /\ wg' = wg + 1
           /\ wk'.pc = "pkHeights"
           /\ \A d \in Directions : wk'.cache[d] = <<>>
    /\ Len(channels') < Len(channels) => pc = "select"

\* C21: when the re-query of the channel of a worker that exited says OPEN, the
\* scheduler goes from the re-query through the loop top to the spawn loop and
\* starts a worker for that channel, with both caches empty, before it is back
\* at the select where completions are received: at the select the channel is
\* active and its worker is running or its completion is waiting in the queue.
C21_RespawnBeforeNextWait == []C21_Inv /\ [][C21_Step]_vars

\* with the context alive, a worker whose predecessor left a cache that was
\* not empty has just been started and the scheduler is still in the spawn loop
C21_Witness ==
    /\ pc = "spawn"
    /\ ~ctxDone
    /\ cur = 1
    /\ openChannels[1].active
    /\ wk.discarded
    /\ wk.pc = "pkHeights"
    /\ \A d \in Directions : wk.cache[d] = <<>>

HelperReturns(d) == wk.task[d].pc \in {"relay", "commit"} /\ wk'.task[d].pc = "done"

C22_Inv ==
    \A d \in Directions :
        wk.task[d].pc \in {"relay", "commit"} =>
            /\ Len(wk.cache[d]) <= Len(wk.task[d].candidate)
            /\ SubSeq(wk.task[d].candidate, 1, Len(wk.cache[d])) = wk.cache[d]

C22_Step ==
    \A d \in Directions :
        /\ HelperReturns(d) =>
               wk'.cache[d] = IF wk'.task[d].err # NilErr THEN wk.cache[d]
                              ELSE wk.task[d].candidate
        /\ wk'.cache[d] # wk.cache[d] =>
               /\ HelperReturns(d)
               /\ wk.task[d].err = NilErr

\* C22: while a helper runs, the worker's cache of its direction stays what it
\* was at the call (the candidate extends it); when the helper returns an
\* error, from the query or from the submission, cancellation included, the
\* cache is left as it was, and it becomes the candidate only in the step in
\* which the helper returns nil.
C22_CommitOnlyOnNil == []C22_Inv /\ [][C22_Step]_vars

\* a submission failed with an application error and the cache, not empty from
\* an earlier pass, does not hold the sequences of the failed one
C22_Witness ==
    \E d \in Directions :
        /\ wk.task[d].pc = "done"
        /\ wk.task[d].err = AppErr
        /\ wk.cache[d] # <<>>
        /\ Len(wk.cache[d]) < MaxSeq

\* the calls whose result is in, and those of them that succeeded
Decided == {p \in Callers : sc.pc[p] \in {"unlock", "returned"}}

Succeeded == {p \in Decided : ~sc.ret[p].err}

C23_Inv ==
    /\ Decided # {} => Cardinality(Succeeded) = 1
    /\ \A p \in Succeeded : sc.ret[p].provider = p /\ sc.singleton = p
    /\ \A p \in Decided \ Succeeded : sc.ret[p].provider = Nil /\ sc.singleton # Nil
    /\ Cardinality(sc.seen \ {Nil}) <= 1

C23_Step ==
    /\ sc.singleton # Nil => sc'.singleton = sc.singleton
    /\ \A p \in Callers :
           (sc.pc[p] = "test" /\ sc'.pc[p] = "unlock") =>
               (sc'.ret[p].err /\ sc'.singleton = sc.singleton)

\* C23: of the calls to NewSettlementProvider whose result is in, exactly one
\* has succeeded, and it returned the singleton it installed; every other one
\* returned an error with a nil provider and left the singleton as it was; the
\* singleton, once set, is never replaced, and no load of it ever sees two
\* different providers.
C23_ExactlyOneInstalls == []C23_Inv /\ [][C23_Step]_vars

\* every caller has returned, the second one won, and the singleton was loaded
\* both before and after it was set
C23_Witness ==
    /\ \A p \in Callers : sc.pc[p] = "returned"
    /\ Succeeded = {2}
    /\ sc.seen = {Nil, 2}

====
